---- MODULE Spec2Model ----
(***************************************************************************)
(* Velocity tracking of kagevoult (packages/core): the in-memory event log *)
(* InMemoryVelocityStore, its sliding-window aggregates (5m, 1h, 24h), the *)
(* rule evaluation of VelocityTracker.analyzeVelocity, the tracker's calls *)
(* in flight and its cleanup timer; the fingerprint build (collectors,     *)
(* combined hash, confidence), the suspect score and the geolocation       *)
(* fallback chain.                                                         *)
(*                                                                         *)
(* Time is in milliseconds as in the source.  A JavaScript value that may  *)
(* be undefined is modelled as a tuple: <<>> is undefined, <<t>> is the    *)
(* number t.  The optional strings linkedId and country are "" when they   *)
(* are absent: the source reads them only through `e.linkedId || ''`,      *)
(* `.filter(Boolean)` and `e.linkedId && ...`, which treat undefined and   *)
(* the empty string alike.  Risk weights are in tenths (0.3 is 3).         *)
(***************************************************************************)
EXTENDS Integers, Sequences, FiniteSets, TLC

VARIABLES
    events,      \* InMemoryVelocityStore.events
    now,         \* the value Date.now() returns
    ticks,       \* how many times the clock has advanced
    lastCleanup, \* <<>> or <<t>>: the time of the most recent cleanup()
    appended,    \* how many trailing entries of events were appended since then
    ret,         \* the call that has just returned: its arguments and its result
    tracker,     \* VelocityTracker: its cleanupInterval timer and the calls in flight
    build,       \* one fingerprint build (complete-fingerprint collector)
    geo          \* GeolocationService: its cache and the lookup in flight

vars == <<events, now, ticks, lastCleanup, appended, ret, tracker, build, geo>>

----------------------------------------------------------------------------
(* Bounds of the model *)

\* the longest event log under Spec (above maxEvents, so that the inline pass runs)
MaxLog == 3
\* the longest event log under SpecConc (above maxEvents)
MaxConcLog == 3
\* the longest event log and the number of half hours under SpecLife
MaxLifeLog == 2
MaxLifeTicks == 6
\* the longest string of a signal under SpecCanon
MaxStr == 2
\* the longest list of a ClientHello under SpecJa3
MaxList == 2
\* how many half hours pass under SpecCache
MaxCacheTicks == 4
\* how many times the clock advances
MaxTicks == 2
\* the longest event log under SpecIp (four IPs of one visitor and another visitor)
MaxIpLog == 5

----------------------------------------------------------------------------
(* Program constants *)

\* private readonly maxEvents = 100000, scaled down so that the log can exceed it
maxEvents == 2

FiveMin == 5 * 60 * 1000
OneHour == 60 * 60 * 1000
Day     == 24 * 60 * 60 * 1000

Windows == {"5m", "1h", "24h"}

Duration == [w \in Windows |->
               IF w = "5m" THEN FiveMin ELSE IF w = "1h" THEN OneHour ELSE Day]

\* the first value of Date.now() in the model
Epoch == 3 * Day

----------------------------------------------------------------------------
(* Values *)

NoVisitor == "undefined"
Visitors  == {"v1", "v2"}

\* e.timestamp > cutoff: a comparison with undefined is false
After(e, cutoff) == e.timestamp # <<>> /\ e.timestamp[1] > cutoff

Malformed(e) == e.visitorId = NoVisitor \/ e.timestamp = <<>>

\* {x, y, ...}.size after .filter(Boolean): the empty string is dropped
Truthy(S) == S \ {""}

Range(s) == {s[i] : i \in 1..Len(s)}

Max(a, b) == IF a >= b THEN a ELSE b
Min(a, b) == IF a <= b THEN a ELSE b

----------------------------------------------------------------------------
(* InMemoryVelocityStore *)

intervalsAt(t) == [w \in Windows |-> t - Duration[w]]

\* countDistinct without the filter e.timestamp > intervals[window]
countDistinctOfAnyTime(evs, intervals, selector) ==
    [w \in Windows |-> Cardinality(Truthy({e[selector] : e \in Range(evs)}))]

\* selector names the field the selector function reads
countDistinct(evs, intervals, selector) ==
    [w \in Windows |->
        Cardinality(Truthy({e[selector] : e \in {x \in Range(evs) : After(x, intervals[w])}}))]

\* countEvents with the cutoffs of '5m' and '24h' taken for each other
countEventsSwapped(evs, intervals) ==
    [w \in Windows |->
        Len(SelectSeq(evs, LAMBDA e :
            After(e, intervals[IF w = "5m" THEN "24h" ELSE IF w = "24h" THEN "5m" ELSE w])))]

countEvents(evs, intervals) ==
    [w \in Windows |-> Len(SelectSeq(evs, LAMBDA e : After(e, intervals[w])))]

\* countEventsByIp without the filter ips.has(e.ip)
countEventsByIpOfAll(log, evs, intervals) ==
    [w \in Windows |-> Len(SelectSeq(log, LAMBDA e : After(e, intervals[w])))]

countEventsByIp(log, evs, intervals) ==
    LET ips      == {e.ip : e \in Range(evs)}
        ipEvents == SelectSeq(log, LAMBDA e : e.ip \in ips)
    IN  [w \in Windows |-> Len(SelectSeq(ipEvents, LAMBDA e : After(e, intervals[w])))]

\* countDistinctIpByLinkedId without .filter(Boolean), the size test and `e.linkedId &&`
countDistinctIpByLinkedIdUnfiltered(log, evs, intervals) ==
    LET linkedIds    == {e.linkedId : e \in Range(evs)}
        linkedEvents == SelectSeq(log, LAMBDA e : e.linkedId \in linkedIds)
    IN  [w \in Windows |->
            Cardinality({e.ip : e \in {x \in Range(linkedEvents) : After(x, intervals[w])}})]

countDistinctIpByLinkedId(log, evs, intervals) ==
    LET linkedIds    == Truthy({e.linkedId : e \in Range(evs)})
        linkedEvents == SelectSeq(log, LAMBDA e : e.linkedId # "" /\ e.linkedId \in linkedIds)
    IN  IF linkedIds = {}
        THEN [w \in Windows |-> 0]
        ELSE [w \in Windows |->
                Cardinality({e.ip : e \in {x \in Range(linkedEvents) : After(x, intervals[w])}})]

countDistinctVisitorByLinkedId(log, evs, intervals) ==
    LET linkedIds    == Truthy({e.linkedId : e \in Range(evs)})
        linkedEvents == SelectSeq(log, LAMBDA e : e.linkedId # "" /\ e.linkedId \in linkedIds)
    IN  IF linkedIds = {}
        THEN [w \in Windows |-> 0]
        ELSE [w \in Windows |->
                Cardinality({e.visitorId : e \in {x \in Range(linkedEvents) : After(x, intervals[w])}})]

\* e => e.ip, e => e.linkedId || '', e => e.country || ''
SelIp       == "ip"
SelLinkedId == "linkedId"
SelCountry  == "country"

\* getVelocity without the filter e.visitorId === visitorId
getVelocityOfEveryone(log, t, visitorId) ==
    LET intervals     == intervalsAt(t)
        visitorEvents == log
    IN  [distinctIp                  |-> countDistinct(visitorEvents, intervals, SelIp),
         distinctLinkedId            |-> countDistinct(visitorEvents, intervals, SelLinkedId),
         distinctCountry             |-> countDistinct(visitorEvents, intervals, SelCountry),
         events                      |-> countEvents(visitorEvents, intervals),
         ipEvents                    |-> countEventsByIp(log, visitorEvents, intervals),
         distinctIpByLinkedId        |-> countDistinctIpByLinkedId(log, visitorEvents, intervals),
         distinctVisitorIdByLinkedId |-> countDistinctVisitorByLinkedId(log, visitorEvents, intervals)]

getVelocity(log, t, visitorId) ==
    LET intervals     == intervalsAt(t)
        visitorEvents == SelectSeq(log, LAMBDA e : e.visitorId = visitorId)
    IN  [distinctIp                  |-> countDistinct(visitorEvents, intervals, SelIp),
         distinctLinkedId            |-> countDistinct(visitorEvents, intervals, SelLinkedId),
         distinctCountry             |-> countDistinct(visitorEvents, intervals, SelCountry),
         events                      |-> countEvents(visitorEvents, intervals),
         ipEvents                    |-> countEventsByIp(log, visitorEvents, intervals),
         distinctIpByLinkedId        |-> countDistinctIpByLinkedId(log, visitorEvents, intervals),
         distinctVisitorIdByLinkedId |-> countDistinctVisitorByLinkedId(log, visitorEvents, intervals)]

\* this.events.filter(e => e.visitorId === visitorId)
VisitorEvents(log, v) == SelectSeq(log, LAMBDA e : e.visitorId = v)

\* cleanup keeping the events stamped exactly 24h ago (>= for >)
cleanupInclusive(log, t) ==
    SelectSeq(log, LAMBDA e : e.timestamp # <<>> /\ e.timestamp[1] >= t - Day)

\* this.events.filter(e => e.timestamp > cutoff), cutoff = Date.now() - 24h
cleanup(log, t) == SelectSeq(log, LAMBDA e : After(e, t - Day))

addEvent(log, t, e) ==
    LET pushed == Append(log, e)
    IN  IF Len(pushed) > maxEvents THEN cleanup(pushed, t) ELSE pushed

----------------------------------------------------------------------------
(* VelocityTracker.analyzeVelocity: the rules over one VelocityData *)

\* the first rule firing at its threshold (>= for >)
rapidIpChangesAtThreshold(velocity) == velocity.distinctIp["5m"] >= 3

rapidIpChanges(velocity) == velocity.distinctIp["5m"] > 3

highActivity(velocity) == velocity.events["5m"] > 50

distributedActivity(velocity) == velocity.distinctIp["1h"] > 10

accountSharing(velocity) == velocity.distinctVisitorIdByLinkedId["1h"] > 5

\* avgEventsPerIp = ipEvents['1h'] / Math.max(1, distinctIp['1h']); avgEventsPerIp > 20.
\* The divisor is at least 1, so the quotient exceeds 20 exactly when the
\* dividend exceeds 20 times the divisor.
ipSharing(velocity) ==
    velocity.ipEvents["1h"] > 20 * Max(1, velocity.distinctIp["1h"])

\* signals.push(...) of each rule that fires, in the order of the if statements
signalsOf(velocity) ==
       (IF rapidIpChanges(velocity)      THEN <<"rapid_ip_changes">>     ELSE <<>>)
    \o (IF highActivity(velocity)        THEN <<"high_activity">>        ELSE <<>>)
    \o (IF distributedActivity(velocity) THEN <<"distributed_activity">> ELSE <<>>)
    \o (IF accountSharing(velocity)      THEN <<"account_sharing">>      ELSE <<>>)
    \o (IF ipSharing(velocity)           THEN <<"ip_sharing">>           ELSE <<>>)

\* riskScore += weight of each rule that fires, in tenths
scoreOf(velocity) ==
      (IF rapidIpChanges(velocity)      THEN 3 ELSE 0)
    + (IF highActivity(velocity)        THEN 2 ELSE 0)
    + (IF distributedActivity(velocity) THEN 4 ELSE 0)
    + (IF accountSharing(velocity)      THEN 3 ELSE 0)
    + (IF ipSharing(velocity)           THEN 2 ELSE 0)

\* analyzeVelocity without Math.min(riskScore, 1)
analyzeVelocityUnclamped(velocity) ==
    [velocity  |-> velocity,
     signals   |-> signalsOf(velocity),
     riskScore |-> scoreOf(velocity)]

analyzeVelocity(velocity) ==
    [velocity  |-> velocity,
     signals   |-> signalsOf(velocity),
     riskScore |-> Min(scoreOf(velocity), 10)]

----------------------------------------------------------------------------
(* The return value of a call *)

NoEvent    == [visitorId |-> "", ip |-> "", linkedId |-> "", country |-> "", timestamp |-> <<>>]
NoVelocity == <<>>

Returned(op, visitorId, event, velocity, signals, riskScore) ==
    [op |-> op, visitorId |-> visitorId, event |-> event, velocity |-> velocity,
     signals |-> signals, riskScore |-> riskScore, error |-> FALSE]

Idle == Returned("none", "", NoEvent, NoVelocity, <<>>, 0)

\* the parts of the system a specification does not exercise
NoTracker == <<>>
NoBuild   == <<>>
NoGeo     == <<>>

----------------------------------------------------------------------------
(* Inputs *)

\* The events a caller passes to track(): well-formed events of two visitors
\* stamped with the current time, one backdated by exactly 24h, one that lacks
\* its timestamp and one that lacks its visitorId.
Event(v, ip, l, c, ts) ==
    [visitorId |-> v, ip |-> ip, linkedId |-> l, country |-> c, timestamp |-> ts]

EventInputs(t) ==
    {Event("v1", "ip1", "",   "",   <<t>>),
     Event("v1", "ip2", "l1", "US", <<t>>),
     Event("v2", "ip1", "l1", "",   <<t>>),
     Event("v1", "ip1", "l1", "US", <<t - Day>>),
     Event("v1", "ip1", "l1", "",   <<>>),
     Event(NoVisitor, "ip1", "l1", "", <<t>>)}

\* How far the clock moves at its k-th advance: to 5 minutes, 1 hour and 24 hours
\* after Epoch, then a day at a time, so that an event reaches every window's
\* edge exactly and every age class in between.
Deltas(k) ==
    IF k = 1 THEN {FiveMin}
    ELSE IF k = 2 THEN {OneHour - FiveMin}
    ELSE IF k = 3 THEN {Day - OneHour}
    ELSE {Day}

----------------------------------------------------------------------------
(* Operations *)

Init ==
    /\ events = <<>>
    /\ now = Epoch
    /\ ticks = 0
    /\ lastCleanup = <<>>
    /\ appended = 0
    /\ ret = Idle
    /\ tracker = NoTracker
    /\ build = NoBuild
    /\ geo = NoGeo

\* VelocityTracker.track -> InMemoryVelocityStore.addEvent
Track(e) ==
    /\ events' = addEvent(events, now, e)
    /\ appended' = IF Len(events) + 1 > maxEvents
                   THEN Len(cleanup(SubSeq(Append(events, e),
                                           Len(events) - appended + 1, Len(events) + 1), now))
                   ELSE appended + 1
    /\ ret' = Returned("addEvent", e.visitorId, e, NoVelocity, <<>>, 0)
    /\ UNCHANGED <<now, ticks, lastCleanup, tracker, build, geo>>

GetVelocity(v) ==
    /\ ret' = Returned("getVelocity", v, NoEvent, getVelocity(events, now, v), <<>>, 0)
    /\ UNCHANGED <<events, now, ticks, lastCleanup, appended, tracker, build, geo>>

AnalyzeVelocity(v) ==
    /\ LET a == analyzeVelocity(getVelocity(events, now, v))
       IN  ret' = Returned("analyzeVelocity", v, NoEvent, a.velocity, a.signals, a.riskScore)
    /\ UNCHANGED <<events, now, ticks, lastCleanup, appended, tracker, build, geo>>

\* the setInterval callback of startCleanup -> InMemoryVelocityStore.cleanup
Cleanup ==
    /\ events' = cleanup(events, now)
    /\ lastCleanup' = <<now>>
    /\ appended' = 0
    /\ ret' = Returned("cleanup", "", NoEvent, NoVelocity, <<>>, 0)
    /\ UNCHANGED <<now, ticks, tracker, build, geo>>

\* time passes between two calls
Tick(d) ==
    /\ ticks < MaxTicks
    /\ now' = now + d
    /\ ticks' = ticks + 1
    /\ ret' = Idle
    /\ UNCHANGED <<events, lastCleanup, appended, tracker, build, geo>>

Next ==
    \/ \E e \in EventInputs(now) : Len(events) < MaxLog /\ Track(e)
    \/ \E v \in Visitors : GetVelocity(v)
    \/ Cleanup
    \/ \E d \in Deltas(ticks + 1) : Tick(d)

Spec == Init /\ [][Next]_vars

----------------------------------------------------------------------------
(* One visitor moving over many IPs while another visitor stays on one,    *)
(* all within one instant of the clock                                     *)

ManyIps == {"ip1", "ip2", "ip3", "ip4"}

\* v1 from each of four IPs now, v1 from ip1 exactly five minutes ago (just
\* outside the 5m window), and v2 from ip1 now
IpInputs(t) ==
    {Event("v1", ip, "", "", <<t>>) : ip \in ManyIps}
    \cup {Event("v1", "ip1", "", "", <<t - FiveMin>>),
          Event("v2", "ip1", "", "", <<t>>)}

NextIp ==
    \/ \E e \in IpInputs(now) : Len(events) < MaxIpLog /\ Track(e)
    \/ \E v \in Visitors : AnalyzeVelocity(v)

SpecIp == Init /\ [][NextIp]_vars

----------------------------------------------------------------------------
(* analyzeVelocity's rules as a function of the velocity data alone *)

W(a, b, c) == [w \in Windows |-> IF w = "5m" THEN a ELSE IF w = "1h" THEN b ELSE c]

\* Velocity data with any counts around the five thresholds; the counts the
\* rules do not read are 0.
VelocityInputs ==
    {[distinctIp                  |-> W(d5, d1, 0),
      distinctLinkedId            |-> W(0, 0, 0),
      distinctCountry             |-> W(0, 0, 0),
      events                      |-> W(e5, 0, 0),
      ipEvents                    |-> W(0, i1, 0),
      distinctIpByLinkedId        |-> W(0, 0, 0),
      distinctVisitorIdByLinkedId |-> W(0, s1, 0)] :
        d5 \in {0, 3, 4}, e5 \in {0, 50, 51}, d1 \in {0, 1, 10, 11},
        s1 \in {0, 5, 6}, i1 \in {0, 20, 21, 200, 201, 220, 221}}

InitRules ==
    /\ events = <<>>
    /\ now = Epoch
    /\ ticks = 0
    /\ lastCleanup = <<>>
    /\ appended = 0
    /\ \E vd \in VelocityInputs : ret = Returned("input", "", NoEvent, vd, <<>>, 0)
    /\ tracker = NoTracker
    /\ build = NoBuild
    /\ geo = NoGeo

ApplyRules ==
    /\ ret.op = "input"
    /\ LET a == analyzeVelocity(ret.velocity)
       IN  ret' = Returned("analyzeVelocity", "", NoEvent, a.velocity, a.signals, a.riskScore)
    /\ UNCHANGED <<events, now, ticks, lastCleanup, appended, tracker, build, geo>>

NextRules == ApplyRules

SpecRules == InitRules /\ [][NextRules]_vars

----------------------------------------------------------------------------
(* Queries for a visitor the log may not know: two visitors sharing an IP   *)
(* and a linkedId, events that age out of the log, and both queries         *)

\* v1 and v2 now, from the same IP and with the same linkedId, and v1 exactly
\* 24h ago (an event the next cleanup drops)
UnknownInputs(t) ==
    {Event("v1", "ip1", "l1", "US", <<t>>),
     Event("v2", "ip1", "l1", "US", <<t>>),
     Event("v1", "ip1", "l1", "US", <<t - Day>>)}

NextUnknown ==
    \/ \E e \in UnknownInputs(now) : Len(events) < MaxLog /\ Track(e)
    \/ \E v \in Visitors : GetVelocity(v)
    \/ \E v \in Visitors : AnalyzeVelocity(v)
    \/ Cleanup
    \/ \E d \in Deltas(ticks + 1) : Tick(d)

SpecUnknown == Init /\ [][NextUnknown]_vars

----------------------------------------------------------------------------
(* Concurrent callers.  Every method is an async function running on the    *)
(* one JavaScript thread: a call runs from its first statement to its next  *)
(* await or its return before anything else runs.  The bodies of addEvent,  *)
(* getVelocity and cleanup contain no await; track awaits addEvent's        *)
(* promise and analyzeVelocity awaits getVelocity's, so each of them        *)
(* resumes in a later turn of the event loop.  The methods are modelled     *)
(* statement by statement, each statement reading this.events as it is at   *)
(* that moment.  The clock stands still.                                    *)

Callers == {"c1", "c2"}
Timer   == "timer"
NoTask  == ""

IdleCall ==
    [op |-> "none", pc |-> "idle", event |-> NoEvent, visitorId |-> "",
     snap |-> <<>>, visitorEvents |-> <<>>, filtered |-> <<>>, parts |-> <<>>]

\* the tracker with no call in flight
TrackerConc ==
    [running |-> NoTask,
     calls   |-> [t \in Callers \cup {Timer} |-> IdleCall],
     acked   |-> 0]

InitConc ==
    /\ events = <<>>
    /\ now = Epoch
    /\ ticks = 0
    /\ lastCleanup = <<>>
    /\ appended = 0
    /\ ret = Idle
    /\ tracker = TrackerConc
    /\ build = NoBuild
    /\ geo = NoGeo

\* a statement of this call runs next only when another call preempts it
mayRunPreempting(tr, t) == TRUE

\* run to completion: the thread is free or this call holds it
mayRun(tr, t) == tr.running \in {NoTask, t}

\* the VelocityData assembled from the visitor's events and the three
\* counters that read this.events
velocityOf(visitorEvents, t, parts) ==
    LET intervals == intervalsAt(t)
    IN  [distinctIp                  |-> countDistinct(visitorEvents, intervals, SelIp),
         distinctLinkedId            |-> countDistinct(visitorEvents, intervals, SelLinkedId),
         distinctCountry             |-> countDistinct(visitorEvents, intervals, SelCountry),
         events                      |-> countEvents(visitorEvents, intervals),
         ipEvents                    |-> parts[1],
         distinctIpByLinkedId        |-> parts[2],
         distinctVisitorIdByLinkedId |-> parts[3]]

Step(t, call, holds) ==
    tracker' = [tracker EXCEPT !.calls[t] = call,
                               !.running = IF holds THEN t ELSE NoTask]

\* addEvent: this.events.push(event)
AddPush(t, e) ==
    /\ tracker.calls[t].pc = "idle"
    /\ mayRun(tracker, t)
    /\ events' = Append(events, e)
    /\ Step(t, [IdleCall EXCEPT !.op = "addEvent", !.pc = "pushed", !.event = e], TRUE)
    /\ UNCHANGED <<now, ticks, lastCleanup, appended, ret, build, geo>>

\* addEvent: the length test and this.events.filter(...); without the pass
\* addEvent returns and track waits for its promise
AddFilter(t) ==
    /\ tracker.calls[t].pc = "pushed"
    /\ mayRun(tracker, t)
    /\ IF Len(events) > maxEvents
       THEN Step(t, [tracker.calls[t] EXCEPT !.pc = "filtered",
                                             !.filtered = cleanup(events, now)], TRUE)
       ELSE Step(t, [tracker.calls[t] EXCEPT !.pc = "resolved"], FALSE)
    /\ UNCHANGED <<events, now, ticks, lastCleanup, appended, ret, build, geo>>

\* addEvent: this.events = (the filtered array); addEvent returns
AddAssign(t) ==
    /\ tracker.calls[t].op = "addEvent"
    /\ tracker.calls[t].pc = "filtered"
    /\ mayRun(tracker, t)
    /\ events' = tracker.calls[t].filtered
    /\ Step(t, [tracker.calls[t] EXCEPT !.pc = "resolved"], FALSE)
    /\ UNCHANGED <<now, ticks, lastCleanup, appended, ret, build, geo>>

\* track resumes after `await this.store.addEvent(event)` and returns
TrackResume(t) ==
    /\ tracker.calls[t].op = "addEvent"
    /\ tracker.calls[t].pc = "resolved"
    /\ mayRun(tracker, t)
    /\ tracker' = [tracker EXCEPT
           !.calls[t] = IdleCall,
           !.running = NoTask,
           !.acked = @ + (IF After(tracker.calls[t].event, now - Day) THEN 1 ELSE 0)]
    /\ ret' = Returned("addEvent", tracker.calls[t].event.visitorId, tracker.calls[t].event,
                       NoVelocity, <<>>, 0)
    /\ UNCHANGED <<events, now, ticks, lastCleanup, appended, build, geo>>

\* getVelocity: visitorEvents = this.events.filter(e => e.visitorId === visitorId)
GetFilter(t, op, v) ==
    /\ tracker.calls[t].pc = "idle"
    /\ mayRun(tracker, t)
    /\ Step(t, [IdleCall EXCEPT !.op = op, !.pc = "ipEvents", !.visitorId = v,
                                !.snap = events,
                                !.visitorEvents = VisitorEvents(events, v)], TRUE)
    /\ UNCHANGED <<events, now, ticks, lastCleanup, appended, ret, build, geo>>

\* getVelocity: the next of countEventsByIp, countDistinctIpByLinkedId and
\* countDistinctVisitorByLinkedId; after the last one getVelocity returns
GetCount(t) ==
    /\ tracker.calls[t].pc \in {"ipEvents", "distinctIpByLinkedId", "distinctVisitorIdByLinkedId"}
    /\ mayRun(tracker, t)
    /\ LET c    == tracker.calls[t]
           i    == intervalsAt(now)
           part == IF c.pc = "ipEvents"
                   THEN countEventsByIp(events, c.visitorEvents, i)
                   ELSE IF c.pc = "distinctIpByLinkedId"
                   THEN countDistinctIpByLinkedId(events, c.visitorEvents, i)
                   ELSE countDistinctVisitorByLinkedId(events, c.visitorEvents, i)
           next == IF c.pc = "ipEvents" THEN "distinctIpByLinkedId"
                   ELSE IF c.pc = "distinctIpByLinkedId" THEN "distinctVisitorIdByLinkedId"
                   ELSE "resolved"
       IN  Step(t, [c EXCEPT !.pc = next, !.parts = Append(@, part)], next # "resolved")
    /\ UNCHANGED <<events, now, ticks, lastCleanup, appended, ret, build, geo>>

\* the caller of getVelocity receives the result; analyzeVelocity resumes
\* after `await this.getVelocity(visitorId)`, evaluates the rules and returns
GetResume(t) ==
    /\ tracker.calls[t].op \in {"getVelocity", "analyzeVelocity"}
    /\ tracker.calls[t].pc = "resolved"
    /\ mayRun(tracker, t)
    /\ LET c        == tracker.calls[t]
           velocity == velocityOf(c.visitorEvents, now, c.parts)
           a        == analyzeVelocity(velocity)
       IN  ret' = IF c.op = "getVelocity"
                  THEN Returned("getVelocity", c.visitorId, NoEvent, velocity, <<>>, 0)
                  ELSE Returned("analyzeVelocity", c.visitorId, NoEvent,
                                a.velocity, a.signals, a.riskScore)
    /\ tracker' = [tracker EXCEPT !.calls[t] = IdleCall, !.running = NoTask]
    /\ UNCHANGED <<events, now, ticks, lastCleanup, appended, build, geo>>

\* the setInterval callback, cleanup: this.events.filter(...)
TimerFilter ==
    /\ tracker.calls[Timer].pc = "idle"
    /\ mayRun(tracker, Timer)
    /\ Step(Timer, [IdleCall EXCEPT !.op = "cleanup", !.pc = "filtered",
                                    !.filtered = cleanup(events, now)], TRUE)
    /\ UNCHANGED <<events, now, ticks, lastCleanup, appended, ret, build, geo>>

\* cleanup: this.events = (the filtered array); the callback returns
TimerAssign ==
    /\ tracker.calls[Timer].pc = "filtered"
    /\ mayRun(tracker, Timer)
    /\ events' = tracker.calls[Timer].filtered
    /\ Step(Timer, IdleCall, FALSE)
    /\ UNCHANGED <<now, ticks, lastCleanup, appended, ret, build, geo>>

NextConc ==
    \/ \E t \in Callers : \E e \in UnknownInputs(now) : Len(events) < MaxConcLog /\ AddPush(t, e)
    \/ \E t \in Callers : AddFilter(t)
    \/ \E t \in Callers : AddAssign(t)
    \/ \E t \in Callers : TrackResume(t)
    \/ \E t \in Callers : \E op \in {"getVelocity", "analyzeVelocity"} : \E v \in Visitors :
           GetFilter(t, op, v)
    \/ \E t \in Callers : GetCount(t)
    \/ \E t \in Callers : GetResume(t)
    \/ TimerFilter
    \/ TimerAssign

SpecConc == InitConc /\ [][NextConc]_vars

----------------------------------------------------------------------------
(* The lifecycle of a VelocityTracker: its constructor arms an hourly       *)
(* interval timer whose callback is store.cleanup(); stop() clears it.      *)
(* The clock advances by half hours and does not pass the expiry of an      *)
(* armed timer before its callback has run.                                 *)

HalfHour == 30 * 60 * 1000

\* setInterval(callback, 60 * 60 * 1000) called at time t
startCleanup(t) ==
    [cleanupInterval |-> "active", due |-> t + OneHour, fired |-> 0, stopped |-> FALSE]

\* stop() leaving the timer armed
stopKeepingInterval(tr) == tr

\* if (this.cleanupInterval) clearInterval(this.cleanupInterval)
stop(tr) == [tr EXCEPT !.cleanupInterval = "cleared"]

\* a fresh event, and one that is 24h old by the next half hour
LifeInputs(t) ==
    {Event("v1", "ip1", "l1", "US", <<t>>),
     Event("v1", "ip2", "l1", "US", <<t - Day + HalfHour>>)}

InitLife ==
    /\ events = <<>>
    /\ now = Epoch
    /\ ticks = 0
    /\ lastCleanup = <<>>
    /\ appended = 0
    /\ ret = Idle
    /\ tracker = startCleanup(Epoch)
    /\ build = NoBuild
    /\ geo = NoGeo

\* the interval expires: the callback runs store.cleanup() and the timer is
\* re-armed for an hour later
TimerFire ==
    /\ tracker.cleanupInterval = "active"
    /\ now >= tracker.due
    /\ events' = cleanup(events, now)
    /\ lastCleanup' = <<now>>
    /\ appended' = 0
    /\ ret' = Returned("cleanup", "", NoEvent, NoVelocity, <<>>, 0)
    /\ tracker' = [tracker EXCEPT !.due = @ + OneHour, !.fired = @ + 1]
    /\ UNCHANGED <<now, ticks, build, geo>>

Stop ==
    /\ tracker' = [stop(tracker) EXCEPT !.stopped = TRUE]
    /\ ret' = Returned("stop", "", NoEvent, NoVelocity, <<>>, 0)
    /\ UNCHANGED <<events, now, ticks, lastCleanup, appended, build, geo>>

LifeTick ==
    /\ ticks < MaxLifeTicks
    /\ tracker.cleanupInterval = "active" => now + HalfHour <= tracker.due
    /\ now' = now + HalfHour
    /\ ticks' = ticks + 1
    /\ ret' = Idle
    /\ UNCHANGED <<events, lastCleanup, appended, tracker, build, geo>>

NextLife ==
    \/ \E e \in LifeInputs(now) : Len(events) < MaxLifeLog /\ Track(e)
    \/ \E v \in Visitors : GetVelocity(v)
    \/ TimerFire
    \/ Stop
    \/ LifeTick

\* an expired timer's callback runs as soon as the thread is free, and every
\* call returns
SpecLife == InitLife /\ [][NextLife]_vars /\ WF_vars(TimerFire)

----------------------------------------------------------------------------
(* The fingerprint build (complete-fingerprint collector).  A device stands *)
(* for its client, screen, hardware and capabilities attributes; a hash of  *)
(* a signal is a short string.  A string is hashed over its sequence of     *)
(* character codes.                                                         *)

Signals == {"canvas", "webgl", "audio", "fonts"}

Devices == {"d1", "d2", "d3"}

\* typeof crypto !== 'undefined' && crypto.subtle, per device
HasSubtle(d) == d = "d1"

\* what each collector yields on a device when it succeeds
SignalHash(d, sig) ==
    IF sig = "canvas" THEN (IF d = "d3" THEN "c2" ELSE "c1")
    ELSE IF sig = "webgl" THEN "g1"
    ELSE IF sig = "audio" THEN "a1"
    ELSE "f1"

\* str.charCodeAt(i), i = 0 .. str.length - 1, of the strings of the model
charCodes(str) ==
    CASE str = "d1" -> <<100, 49>>
      [] str = "d2" -> <<100, 50>>
      [] str = "d3" -> <<100, 51>>
      [] str = "c1" -> <<99, 49>>
      [] str = "c2" -> <<99, 50>>
      [] str = "g1" -> <<103, 49>>
      [] str = "a1" -> <<97, 49>>
      [] str = "f1" -> <<102, 49>>
      [] str = "error" -> <<101, 114, 114, 111, 114>>

\* the decimal digits of a number, as character codes
RECURSIVE Digits(_)
Digits(n) == IF n < 10 THEN <<48 + n>> ELSE Append(Digits(n \div 10), 48 + (n % 10))

\* collectBasicFingerprintAsync on device d at time t
collectBasicFingerprintAsync(d, t) == [client |-> d, timestamp |-> t]

\* the object collectionPromise returns
CompleteFingerprint(basic, hashes, t) ==
    [basic |-> basic, canvas |-> hashes["canvas"], webgl |-> hashes["webgl"],
     audio |-> hashes["audio"], fonts |-> hashes["fonts"], timestamp |-> t]

\* JSON.stringify({basic, canvas, webgl, audio, fonts}): the values in key
\* order, the punctuation and the key names (the same in every string) left out
dataStringOf(fingerprint) ==
    charCodes(fingerprint.basic.client) \o Digits(fingerprint.basic.timestamp)
        \o charCodes(fingerprint.canvas) \o charCodes(fingerprint.webgl)
        \o charCodes(fingerprint.audio) \o charCodes(fingerprint.fonts)

\* A 32-bit integer is the pair <<high, low>> of its 16-bit halves.
\* hash = ((hash << 5) - hash) + char; hash = hash & hash: 31 * hash + char mod 2^32
RECURSIVE hashLoop(_, _)
hashLoop(hash, str) ==
    IF str = <<>> THEN hash
    ELSE LET low  == 31 * hash[2] + Head(str)
             high == (31 * hash[1] + (low \div 65536)) % 65536
         IN  hashLoop(<<high, low % 65536>>, Tail(str))

\* Math.abs(hash) of the signed 32-bit value, as the pair of its halves
\* (toString(16) writes this number in hexadecimal)
simpleHash(str) ==
    LET hash == hashLoop(<<0, 0>>, str)
    IN  IF hash[1] < 32768 THEN [simple |-> hash]
        ELSE [simple |-> <<65535 - hash[1] + (IF hash[2] = 0 THEN 1 ELSE 0),
                           (65536 - hash[2]) % 65536>>]

\* the SHA-256 digest in hexadecimal: distinct strings have distinct digests
sha256(str) == [sha256 |-> str]

generateCombinedHash(fingerprint, subtle) ==
    IF subtle THEN sha256(dataStringOf(fingerprint)) ELSE simpleHash(dataStringOf(fingerprint))

\* fingerprintHash.substring(0, 20): all of a simpleHash string (at most 8
\* digits); the first 20 digits of a SHA-256 digest, which tell digests apart
generateVisitorId(fingerprintHash) == [first20 |-> fingerprintHash]

\* buildFingerprintResponse: the fingerprint collected at time t on device d
\* with every collector succeeding, its combined hash and its visitorId
Identified(d, t) ==
    LET fingerprint  == CompleteFingerprint(collectBasicFingerprintAsync(d, t),
                                            [sig \in Signals |-> SignalHash(d, sig)], t)
        combinedHash == generateCombinedHash(fingerprint, HasSubtle(d))
    IN  [fingerprint |-> fingerprint, combinedHash |-> combinedHash,
         visitorId |-> generateVisitorId(combinedHash)]

InitHash ==
    /\ events = <<>>
    /\ now = Epoch
    /\ ticks = 0
    /\ lastCleanup = <<>>
    /\ appended = 0
    /\ ret = Idle
    /\ tracker = NoTracker
    /\ build = [last |-> <<>>, prev |-> <<>>]
    /\ geo = NoGeo

\* one more build, on any device
Identify(d) ==
    /\ build' = [last |-> <<Identified(d, now)>>, prev |-> build.last]
    /\ UNCHANGED <<events, now, ticks, lastCleanup, appended, ret, tracker, geo>>

NextHash ==
    \/ \E d \in Devices : Identify(d)
    \/ \E d \in Deltas(ticks + 1) : Tick(d)

SpecHash == InitHash /\ [][NextHash]_vars

----------------------------------------------------------------------------
(* One build at a time on device d1: collectCompleteFingerprint or           *)
(* collectLightweightFingerprint starts the collectors, each collector's     *)
(* promise settles in its own time (or never), and the timeout promise may   *)
(* reject at any moment before the collection has settled.                   *)

Pending      == [state |-> "pending", value |-> ""]
Fulfilled(v) == [state |-> "fulfilled", value |-> v]
Rejected     == [state |-> "rejected", value |-> ""]

\* generateCanvasFingerprint, generateWebGLFingerprint, generateAudioFingerprint,
\* generateFontFingerprint and generateTextCanvasFingerprint: the hash, or a
\* thrown error (no 2D context, no WebGL, no Web Audio API, ...), or no answer
generate(sig, outcome) ==
    IF outcome = "ok" THEN Fulfilled(SignalHash("d1", sig))
    ELSE IF outcome = "fails" THEN Rejected
    ELSE Pending

\* promise.catch(() => fallback), and try { await promise } catch { return fallback }
catchWith(promise, fallback) ==
    IF promise.state = "rejected" THEN Fulfilled(fallback) ELSE promise

\* what getWebGLHash, getAudioHash and getFontHash return when generation throws
FallbackHash(sig) ==
    IF sig = "webgl" THEN "webgl-not-supported"
    ELSE IF sig = "audio" THEN "audio-not-supported"
    ELSE "font-detection-failed"

DisabledHash(sig) ==
    IF sig = "canvas" THEN "canvas-disabled"
    ELSE IF sig = "webgl" THEN "webgl-disabled"
    ELSE IF sig = "audio" THEN "audio-disabled"
    ELSE "fonts-disabled"

\* the element of the Promise.all array for sig in collectCompleteFingerprint
completePromise(include, sig, outcome) ==
    IF sig \in include
    THEN generate(sig, outcome)
    ELSE catchWith(generate(sig, outcome), "error")

\* the element of the Promise.all array for sig in collectLightweightFingerprint
lightweightPromise(include, sig, outcome) ==
    IF sig \notin include THEN Fulfilled(DisabledHash(sig))
    ELSE IF sig = "canvas" THEN generate(sig, outcome)
    ELSE catchWith(generate(sig, outcome), FallbackHash(sig))

LightweightFingerprint(basic, hashes, t) ==
    [basic |-> basic, canvasHash |-> hashes["canvas"], webglHash |-> hashes["webgl"],
     audioHash |-> hashes["audio"], fontHash |-> hashes["fonts"], timestamp |-> t]

\* successCount / totalCount * 100 is a whole number for totalCount = 5
calculateConfidenceScore(fingerprint) ==
    LET basic == 1
        rest  == IF "canvas" \in DOMAIN fingerprint
                 THEN   (IF fingerprint.canvas # "error" THEN 1 ELSE 0)
                      + (IF fingerprint.webgl  # "error" THEN 1 ELSE 0)
                      + (IF fingerprint.audio  # "error" THEN 1 ELSE 0)
                      + (IF fingerprint.fonts  # "error" THEN 1 ELSE 0)
                 ELSE   (IF fingerprint.canvasHash \notin {"canvas-disabled", "error"} THEN 1 ELSE 0)
                      + (IF fingerprint.webglHash  \notin {"webgl-disabled", "error"}  THEN 1 ELSE 0)
                      + (IF fingerprint.audioHash  \notin {"audio-disabled", "error"}  THEN 1 ELSE 0)
                      + (IF fingerprint.fontHash   \notin {"fonts-disabled", "error"}  THEN 1 ELSE 0)
    IN  ((basic + rest) * 100) \div 5

\* what the collectors of a device do during one build: all answer, or one
\* of them throws, or one of them never answers
BuildEnvs ==
    {[sig \in Signals |-> "ok"]}
    \cup {[sig \in Signals |-> IF sig = bad THEN o ELSE "ok"] :
              bad \in Signals, o \in {"fails", "hangs"}}

\* the signals whose collector a build calls: both branches of each ternary
\* of collectCompleteFingerprint call the collector; in
\* collectLightweightFingerprint the disabled branch is Promise.resolve(...)
collectorsRun(mode, include) == IF mode = "complete" THEN Signals ELSE include

NoBuildYet ==
    [phase |-> "idle", mode |-> "", include |-> {}, ran |-> {},
     env |-> [sig \in Signals |-> "ok"],
     promises |-> [sig \in Signals |-> Pending], result |-> <<>>, error |-> "",
     timedOut |-> FALSE]

InitBuild ==
    /\ events = <<>>
    /\ now = Epoch
    /\ ticks = 0
    /\ lastCleanup = <<>>
    /\ appended = 0
    /\ ret = Idle
    /\ tracker = NoTracker
    /\ build = NoBuildYet
    /\ geo = NoGeo

\* collectCompleteFingerprint(options) / collectLightweightFingerprint(options)
\* up to `await Promise.race(...)`; include holds the signals whose include
\* option is true (all four by default)
StartBuild(mode, include, env) ==
    /\ build.phase # "collecting"
    /\ build' = [NoBuildYet EXCEPT !.phase = "collecting", !.mode = mode,
                                   !.include = include, !.env = env,
                                   !.ran = collectorsRun(mode, include)]
    /\ UNCHANGED <<events, now, ticks, lastCleanup, appended, ret, tracker, geo>>

\* a collector's promise settles.  Promise.all rejects with the first
\* rejection and the build throws 'Fingerprint collection failed'; it is
\* fulfilled with the last fulfilment and the build returns the fingerprint
Settle(sig) ==
    /\ build.phase = "collecting"
    /\ build.promises[sig].state = "pending"
    /\ LET p == IF build.mode = "complete"
                THEN completePromise(build.include, sig, build.env[sig])
                ELSE lightweightPromise(build.include, sig, build.env[sig])
           promises == [build.promises EXCEPT ![sig] = p]
           hashes   == [x \in Signals |-> promises[x].value]
           basic    == collectBasicFingerprintAsync("d1", now)
       IN  /\ p.state # "pending"
           /\ build' =
                 IF p.state = "rejected"
                 THEN [build EXCEPT !.promises = promises, !.phase = "thrown",
                                    !.error = "rejected"]
                 ELSE IF \A x \in Signals : promises[x].state = "fulfilled"
                 THEN [build EXCEPT !.promises = promises, !.phase = "returned",
                                    !.result = IF build.mode = "complete"
                                               THEN CompleteFingerprint(basic, hashes, now)
                                               ELSE LightweightFingerprint(basic, hashes, now)]
                 ELSE [build EXCEPT !.promises = promises]
    /\ UNCHANGED <<events, now, ticks, lastCleanup, appended, ret, tracker, geo>>

\* setTimeout(() => reject(new Error('Fingerprint collection timeout')), opts.timeout)
\* expires before the collection has settled: the race rejects and the build
\* throws
Timeout ==
    /\ build.phase = "collecting"
    /\ build' = [build EXCEPT !.phase = "thrown", !.error = "timeout", !.timedOut = TRUE]
    /\ UNCHANGED <<events, now, ticks, lastCleanup, appended, ret, tracker, geo>>

NextBuild ==
    \/ \E mode \in {"complete", "lightweight"} : \E include \in SUBSET Signals :
           \E env \in BuildEnvs : StartBuild(mode, include, env)
    \/ \E sig \in Signals : Settle(sig)
    \/ Timeout

SpecBuild == InitBuild /\ [][NextBuild]_vars

----------------------------------------------------------------------------
(* calculateSuspectScore (master response builder) as a function of the     *)
(* three detection results.  tampering.anomalyScore is in hundredths (37 is *)
(* 0.37) and the score in two-hundredths (200 is 1), so that                *)
(* anomalyScore * 0.5 and the weights 0.05 and 0.15 are whole numbers.      *)

Confidences == {"low", "medium", "high"}

\* score before Math.min(score, 1)
suspectSum(tampering, vpn, proxy) ==
      tampering.anomalyScore
    + (IF tampering.antiDetectBrowser THEN 60 ELSE 0)
    + (IF vpn.result
       THEN (IF vpn.confidence = "high" THEN 60
             ELSE IF vpn.confidence = "medium" THEN 40 ELSE 20)
       ELSE 0)
    + (IF proxy.result
       THEN (IF proxy.confidence = "high" THEN 40
             ELSE IF proxy.confidence = "medium" THEN 30 ELSE 10)
       ELSE 0)

\* calculateSuspectScore without Math.min(score, 1)
calculateSuspectScoreUnclamped(tampering, vpn, proxy) == suspectSum(tampering, vpn, proxy)

calculateSuspectScore(tampering, vpn, proxy) == Min(suspectSum(tampering, vpn, proxy), 200)

\* anomaly scores from 0 to 1 and every detection result
SuspectInputs ==
    {[op |-> "input",
      tampering |-> [anomalyScore |-> a, antiDetectBrowser |-> ad],
      vpn       |-> [result |-> vr, confidence |-> vc],
      proxy     |-> [result |-> pr, confidence |-> pc],
      result    |-> 0] :
        a \in {0, 1, 30, 50, 99, 100}, ad \in BOOLEAN,
        vr \in BOOLEAN, vc \in Confidences, pr \in BOOLEAN, pc \in Confidences}

InitSuspect ==
    /\ events = <<>>
    /\ now = Epoch
    /\ ticks = 0
    /\ lastCleanup = <<>>
    /\ appended = 0
    /\ ret \in SuspectInputs
    /\ tracker = NoTracker
    /\ build = NoBuild
    /\ geo = NoGeo

CalculateSuspectScore ==
    /\ ret.op = "input"
    /\ ret' = [ret EXCEPT !.op = "calculateSuspectScore",
                          !.result = calculateSuspectScore(ret.tampering, ret.vpn, ret.proxy)]
    /\ UNCHANGED <<events, now, ticks, lastCleanup, appended, tracker, build, geo>>

NextSuspect == CalculateSuspectScore

SpecSuspect == InitSuspect /\ [][NextSuspect]_vars

----------------------------------------------------------------------------
(* GeolocationService (network/ip-geolocation): one lookup at a time over   *)
(* the default provider list.  During a lookup each provider either answers *)
(* with a result, returns null, throws, or never responds.                  *)

\* this.providers, in list order
Providers == <<"ip-api.com", "ipapi.co", "ipinfo.io">>

Ips == {"ip1", "ip2"}

Outcomes == {"answer", "null", "throws", "hangs"}

\* the IPInfoV4 a provider answers with; Null is JavaScript's null
Answer(provider, ip) == <<[address |-> ip, provider |-> provider]>>
Null == <<>>

\* this.cache.get(ip)
cacheGet(cache, ip) ==
    IF \E r \in cache : r.address = ip
    THEN <<CHOOSE r \in cache : r.address = ip>>
    ELSE Null

NoLookup ==
    [phase |-> "idle", ip |-> "", env |-> [i \in 1..Len(Providers) |-> "null"],
     idx |-> 0, called |-> <<>>, result |-> Null, threw |-> FALSE, cached |-> FALSE]

InitGeo ==
    /\ events = <<>>
    /\ now = Epoch
    /\ ticks = 0
    /\ lastCleanup = <<>>
    /\ appended = 0
    /\ ret = Idle
    /\ tracker = NoTracker
    /\ build = NoBuild
    /\ geo = [cache |-> {}, timers |-> {}, lookup |-> NoLookup]

\* the loop body after provider l.idx has settled, with the loop giving up
\* at the first provider that fails
afterAttemptGivingUp(g, outcome) ==
    LET l == g.lookup
    IN  IF outcome = "answer"
        THEN [cache   |-> g.cache \cup {Answer(Providers[l.idx], l.ip)[1]},
              timers  |-> g.timers \cup {l.ip},
              lookup  |-> [l EXCEPT !.phase = "done", !.result = Answer(Providers[l.idx], l.ip)]]
        ELSE [g EXCEPT !.lookup.phase = "done", !.lookup.result = Null]

\* the loop body after provider l.idx has settled: a result is cached (with
\* its expiry timer) and returned; null or a thrown error moves on to the
\* next provider, and past the last provider lookup returns null
afterAttempt(g, outcome) ==
    LET l == g.lookup
    IN  IF outcome = "answer"
        THEN [cache   |-> g.cache \cup {Answer(Providers[l.idx], l.ip)[1]},
              timers  |-> g.timers \cup {l.ip},
              lookup  |-> [l EXCEPT !.phase = "done", !.result = Answer(Providers[l.idx], l.ip)]]
        ELSE IF l.idx < Len(Providers)
        THEN [g EXCEPT !.lookup.idx = l.idx + 1,
                       !.lookup.called = Append(l.called, Providers[l.idx + 1])]
        ELSE [g EXCEPT !.lookup.phase = "done", !.lookup.result = Null]

\* lookup(ip) up to its first await: a cached entry is returned at once,
\* otherwise the first provider is called
StartLookup(ip, env) ==
    /\ geo.lookup.phase # "awaiting"
    /\ geo' = [geo EXCEPT !.lookup =
                 IF cacheGet(geo.cache, ip) # Null
                 THEN [NoLookup EXCEPT !.phase = "done", !.ip = ip, !.env = env,
                                       !.result = cacheGet(geo.cache, ip), !.cached = TRUE]
                 ELSE [NoLookup EXCEPT !.phase = "awaiting", !.ip = ip, !.env = env,
                                       !.idx = 1, !.called = <<Providers[1]>>]]
    /\ UNCHANGED <<events, now, ticks, lastCleanup, appended, ret, tracker, build>>

\* `await provider.lookup(ip)` settles and the loop goes on
ProviderSettles ==
    /\ geo.lookup.phase = "awaiting"
    /\ geo.lookup.env[geo.lookup.idx] # "hangs"
    /\ geo' = afterAttempt(geo, geo.lookup.env[geo.lookup.idx])
    /\ UNCHANGED <<events, now, ticks, lastCleanup, appended, ret, tracker, build>>

\* setTimeout(() => this.cache.delete(ip), this.cacheTTL) expires
CacheExpire(ip) ==
    /\ ip \in geo.timers
    /\ geo' = [geo EXCEPT !.cache = {r \in @ : r.address # ip}, !.timers = @ \ {ip}]
    /\ UNCHANGED <<events, now, ticks, lastCleanup, appended, ret, tracker, build>>

NextGeo ==
    \/ \E ip \in Ips : \E env \in [1..Len(Providers) -> Outcomes] : StartLookup(ip, env)
    \/ ProviderSettles
    \/ \E ip \in Ips : CacheExpire(ip)

SpecGeo == InitGeo /\ [][NextGeo]_vars

----------------------------------------------------------------------------
(* GeolocationService with lookups in flight together, as lookupBatch       *)
(* starts them (Promise.all over ips.map(lookup)), and with the clock: a    *)
(* timer is the pair of its ip and the time it is due.  stored[ip] is       *)
(* bookkeeping: the time of the latest this.cache.set(ip, ...).             *)

cacheTTL == OneHour

IdleLookup == [phase |-> "idle", ip |-> "", idx |-> 0, result |-> Null, cached |-> FALSE]

InitCache ==
    /\ events = <<>>
    /\ now = Epoch
    /\ ticks = 0
    /\ lastCleanup = <<>>
    /\ appended = 0
    /\ ret = Idle
    /\ tracker = NoTracker
    /\ build = NoBuild
    /\ geo = [cache |-> [ip \in Ips |-> Null], timers |-> {},
              stored |-> [ip \in Ips |-> <<>>], calls |-> [c \in Callers |-> IdleLookup]]

\* the timers run in the order of their times, before anything later
NoTimerDue == \A tm \in geo.timers : tm.due > now

\* lookup(ip) by caller c up to its first await
LookupStart(c, ip) ==
    /\ NoTimerDue
    /\ geo.calls[c].phase # "awaiting"
    /\ geo' = [geo EXCEPT !.calls[c] =
                 IF geo.cache[ip] # Null
                 THEN [IdleLookup EXCEPT !.phase = "done", !.ip = ip,
                                         !.result = geo.cache[ip], !.cached = TRUE]
                 ELSE [IdleLookup EXCEPT !.phase = "awaiting", !.ip = ip, !.idx = 1]]
    /\ UNCHANGED <<events, now, ticks, lastCleanup, appended, ret, tracker, build>>

\* `await provider.lookup(ip)` of caller c settles with a result or with null
LookupSettles(c, outcome) ==
    /\ NoTimerDue
    /\ geo.calls[c].phase = "awaiting"
    /\ LET l == geo.calls[c]
       IN geo' = IF outcome = "answer"
                 THEN [geo EXCEPT !.cache[l.ip] = Answer(Providers[l.idx], l.ip),
                                  !.stored[l.ip] = <<now>>,
                                  !.timers = @ \cup {[ip |-> l.ip, due |-> now + cacheTTL]},
                                  !.calls[c].phase = "done",
                                  !.calls[c].result = Answer(Providers[l.idx], l.ip)]
                 ELSE IF l.idx < Len(Providers)
                 THEN [geo EXCEPT !.calls[c].idx = l.idx + 1]
                 ELSE [geo EXCEPT !.calls[c].phase = "done", !.calls[c].result = Null]
    /\ UNCHANGED <<events, now, ticks, lastCleanup, appended, ret, tracker, build>>

\* the callback of setTimeout(() => this.cache.delete(ip), this.cacheTTL)
TimerExpires(tm) ==
    /\ tm \in geo.timers
    /\ tm.due <= now
    /\ geo' = [geo EXCEPT !.cache[tm.ip] = Null, !.timers = @ \ {tm}]
    /\ UNCHANGED <<events, now, ticks, lastCleanup, appended, ret, tracker, build>>

\* half an hour passes
CacheTick ==
    /\ NoTimerDue
    /\ ticks < MaxCacheTicks
    /\ now' = now + HalfHour
    /\ ticks' = ticks + 1
    /\ UNCHANGED <<events, lastCleanup, appended, ret, tracker, build, geo>>

NextCache ==
    \/ \E c \in Callers : \E ip \in Ips : LookupStart(c, ip)
    \/ \E c \in Callers : \E outcome \in {"answer", "null"} : LookupSettles(c, outcome)
    \/ \E tm \in geo.timers : TimerExpires(tm)
    \/ CacheTick

SpecCache == InitCache /\ [][NextCache]_vars

----------------------------------------------------------------------------
(* canonicalize (implementation notes): the canonical string of a bag of    *)
(* signals over a fixed key list.  A string is the sequence of its          *)
(* characters; a field of the bag is <<>> when it is undefined or null and  *)
(* <<str>> when it holds the string str.                                    *)

CanonKeys == <<"ua", "tz">>

Chars == {"a", "|", " "}

\* the strings of at most MaxStr characters
Strings == UNION {[1..n -> Chars] : n \in 0..MaxStr}

FieldValues == {<<>>} \cup {<<str>> : str \in Strings}

RECURSIVE trimStart(_)
trimStart(str) ==
    IF str # <<>> /\ Head(str) = " " THEN trimStart(Tail(str)) ELSE str

RECURSIVE trimEnd(_)
trimEnd(str) ==
    IF str # <<>> /\ str[Len(str)] = " " THEN trimEnd(SubSeq(str, 1, Len(str) - 1)) ELSE str

\* String(v).trim()
trim(str) == trimEnd(trimStart(str))

\* .replace(/\s+/g, " "): every run of whitespace becomes one space
RECURSIVE collapse(_)
collapse(str) ==
    IF Len(str) < 2 THEN str
    ELSE IF str[1] = " " /\ str[2] = " " THEN collapse(Tail(str))
    ELSE <<Head(str)>> \o collapse(Tail(str))

\* the element of keys.map(...) for one field
canonField(v) == IF v = <<>> THEN <<>> ELSE collapse(trim(v[1]))

\* parts.join("|")
RECURSIVE join(_)
join(parts) ==
    IF parts = <<>> THEN <<>>
    ELSE IF Len(parts) = 1 THEN parts[1]
    ELSE parts[1] \o <<"|">> \o join(Tail(parts))

canonicalize(features, keys) ==
    join([i \in 1..Len(keys) |-> canonField(features[keys[i]])])

\* two bags over the key list
CanonInputs ==
    {[op |-> "input", a |-> a, b |-> b, canonA |-> <<>>, canonB |-> <<>>] :
        a \in [Range(CanonKeys) -> FieldValues], b \in [Range(CanonKeys) -> FieldValues]}

InitCanon ==
    /\ events = <<>>
    /\ now = Epoch
    /\ ticks = 0
    /\ lastCleanup = <<>>
    /\ appended = 0
    /\ ret \in CanonInputs
    /\ tracker = NoTracker
    /\ build = NoBuild
    /\ geo = NoGeo

Canonicalize ==
    /\ ret.op = "input"
    /\ ret' = [ret EXCEPT !.op = "canonicalize",
                          !.canonA = canonicalize(ret.a, CanonKeys),
                          !.canonB = canonicalize(ret.b, CanonKeys)]
    /\ UNCHANGED <<events, now, ticks, lastCleanup, appended, tracker, build, geo>>

NextCanon == Canonicalize

SpecCanon == InitCanon /\ [][NextCanon]_vars

----------------------------------------------------------------------------
(* Matching & scoring: weightedScore (implementation notes) and the         *)
(* classification of its score against the configured thresholds.  Weights  *)
(* and thresholds are in hundredths; a score is the fraction num / den with *)
(* den > 0; a feature hash is <<>> when it is undefined or null.            *)

FeatureKeys == <<"canvas", "fonts", "ua">>

Hashes == {<<>>, <<"h1">>, <<"h2">>}

Weights == {0, 15, 25, 60}

\* [low, high]: the suggested thresholds, and a low threshold tuned to 0
Thresholds == {[low |-> 60, high |-> 85], [low |-> 0, high |-> 85]}

\* the loop with the keys absent from both sides counted in the denominator
RECURSIVE weightedSumsCountingAbsent(_, _, _, _, _, _)
weightedSumsCountingAbsent(keys, incoming, stored, weights, num, den) ==
    IF keys = <<>> THEN [num |-> num, den |-> den]
    ELSE LET k == Head(keys)
             w == weights[k]
         IN weightedSumsCountingAbsent(Tail(keys), incoming, stored, weights,
                IF incoming[k] = stored[k] /\ incoming[k] # <<>> THEN num + w ELSE num, den + w)

\* for (const k in weights) { ... }: the sums num and den after the loop
RECURSIVE weightedSums(_, _, _, _, _, _)
weightedSums(keys, incoming, stored, weights, num, den) ==
    IF keys = <<>> THEN [num |-> num, den |-> den]
    ELSE LET k == Head(keys)
             w == weights[k]
         IN IF incoming[k] = <<>> /\ stored[k] = <<>>
            THEN weightedSums(Tail(keys), incoming, stored, weights, num, den)
            ELSE weightedSums(Tail(keys), incoming, stored, weights,
                    IF incoming[k] = stored[k] THEN num + w ELSE num, den + w)

\* return den === 0 ? 0 : num / den
weightedScore(incoming, stored, weights) ==
    LET sums == weightedSums(FeatureKeys, incoming, stored, weights, 0, 0)
    IN IF sums.den = 0 THEN [num |-> 0, den |-> 1] ELSE sums

\* score >= threshold / 100
AtLeast(score, threshold) == score.num * 100 >= threshold * score.den

\* the classification with the high boundary excluded
classifyExclusive(score, th) ==
    IF AtLeast(score, th.high) /\ score.num * 100 # th.high * score.den THEN "known_device"
    ELSE IF AtLeast(score, th.low) THEN "likely_device_variant"
    ELSE "new_device"

\* Score >= high -> same device; between low and high -> variant; else new
classify(score, th) ==
    IF AtLeast(score, th.high) THEN "known_device"
    ELSE IF AtLeast(score, th.low) THEN "likely_device_variant"
    ELSE "new_device"

MatchInputs ==
    {[op |-> "input", incoming |-> i, stored |-> st, weights |-> w,
      thresholds |-> <<>>, score |-> <<>>, classification |-> ""] :
        i \in [Range(FeatureKeys) -> Hashes], st \in [Range(FeatureKeys) -> Hashes],
        w \in [Range(FeatureKeys) -> Weights]}

InitMatch ==
    /\ events = <<>>
    /\ now = Epoch
    /\ ticks = 0
    /\ lastCleanup = <<>>
    /\ appended = 0
    /\ ret \in MatchInputs
    /\ tracker = NoTracker
    /\ build = NoBuild
    /\ geo = NoGeo

WeightedScore ==
    /\ ret.op = "input"
    /\ ret' = [ret EXCEPT !.op = "weightedScore",
                          !.score = weightedScore(ret.incoming, ret.stored, ret.weights)]
    /\ UNCHANGED <<events, now, ticks, lastCleanup, appended, tracker, build, geo>>

Classify(th) ==
    /\ ret.op = "weightedScore"
    /\ ret' = [ret EXCEPT !.op = "classify", !.thresholds = th,
                          !.classification = classify(ret.score, th)]
    /\ UNCHANGED <<events, now, ticks, lastCleanup, appended, tracker, build, geo>>

NextMatch ==
    \/ WeightedScore
    \/ \E th \in Thresholds : Classify(th)

SpecMatch == InitMatch /\ [][NextMatch]_vars

----------------------------------------------------------------------------
(* generateJA3: the JA3 string and hash of a ClientHello.  A string is the  *)
(* sequence of its character codes; an optional list is <<>> when it is     *)
(* undefined and <<list>> otherwise.                                        *)

\* 0x0a0a, 0x1a1a, ..., 0xfafa
greasePattern == {2570 + 4112 * k : k \in 0..15}

isGREASE(value) == value \in greasePattern

\* the lists of at most MaxList values of S
Lists(S) == UNION {[1..n -> S] : n \in 0..MaxList}

\* TLS 1.2; ciphers 0x00ff, 0x1301 and two GREASE values; extensions
\* server_name and two GREASE values; curves x25519 and a GREASE value
ClientHellos ==
    {[version |-> 771, cipherSuites |-> c, extensions |-> x, ellipticCurves |-> cu,
      ellipticCurvePointFormats |-> pf] :
        c \in Lists({255, 4865, 2570, 6682}),
        x \in Lists({0, 2570, 6682}),
        cu \in {<<>>, <<<<>>>>, <<<<29>>>>, <<<<2570>>>>, <<<<2570, 29>>>>},
        pf \in {<<>>, <<<<0>>>>}}

\* (list || [])
orEmpty(list) == IF list = <<>> THEN <<>> ELSE list[1]

\* numbers.join('-')
RECURSIVE joinDash(_)
joinDash(numbers) ==
    IF numbers = <<>> THEN <<>>
    ELSE IF Len(numbers) = 1 THEN Digits(numbers[1])
    ELSE Digits(numbers[1]) \o <<45>> \o joinDash(Tail(numbers))

\* Math.abs(hash).toString(16).padStart(32, '0') of the 32-bit hash loop
md5Hash(str) == simpleHash(str).simple

generateJA3(clientHello) ==
    LET sslVersion   == Digits(clientHello.version)
        ciphers      == joinDash(SelectSeq(clientHello.cipherSuites, LAMBDA c : c # 255))
        extensions   == joinDash(SelectSeq(clientHello.extensions, LAMBDA x : ~isGREASE(x)))
        curves       == joinDash(SelectSeq(orEmpty(clientHello.ellipticCurves),
                                           LAMBDA c : ~isGREASE(c)))
        pointFormats == joinDash(orEmpty(clientHello.ellipticCurvePointFormats))
        ja3String    == sslVersion \o <<44>> \o ciphers \o <<44>> \o extensions \o <<44>>
                            \o curves \o <<44>> \o pointFormats
    IN  [ja3Hash |-> md5Hash(ja3String), ja3String |-> ja3String,
         cipherSuites |-> clientHello.cipherSuites, extensions |-> clientHello.extensions,
         ellipticCurves |-> clientHello.ellipticCurves,
         ellipticCurvePointFormats |-> clientHello.ellipticCurvePointFormats]

InitJa3 ==
    /\ events = <<>>
    /\ now = Epoch
    /\ ticks = 0
    /\ lastCleanup = <<>>
    /\ appended = 0
    /\ ret \in {[op |-> "input", clientHello |-> h, fingerprint |-> <<>>] :
                    h \in ClientHellos}
    /\ tracker = NoTracker
    /\ build = NoBuild
    /\ geo = NoGeo

GenerateJA3 ==
    /\ ret.op = "input"
    /\ ret' = [ret EXCEPT !.op = "generateJA3", !.fingerprint = generateJA3(ret.clientHello)]
    /\ UNCHANGED <<events, now, ticks, lastCleanup, appended, tracker, build, geo>>

NextJa3 == GenerateJA3

SpecJa3 == InitJa3 /\ [][NextJa3]_vars

----------------------------------------------------------------------------
(* detectTampering: seven checks of the browser, the anti-detect check      *)
(* counting double.  anomalyScore is the fraction num / den.                *)

TamperChecks ==
    <<"isNavigatorTampered", "webdriver", "isChromeInconsistent", "arePluginsInconsistent",
      "areLanguagesInconsistent", "isScreenInconsistent", "detectAntiDetectBrowser">>

\* anomalies and totalChecks after the checks from the i-th on
RECURSIVE tamperCounts(_, _, _, _)
tamperCounts(outcome, i, anomalies, totalChecks) ==
    IF i > Len(TamperChecks) THEN [anomalies |-> anomalies, totalChecks |-> totalChecks]
    ELSE LET check == TamperChecks[i]
             found == IF ~outcome[check] THEN 0
                      ELSE IF check = "detectAntiDetectBrowser" THEN 2 ELSE 1
         IN tamperCounts(outcome, i + 1, anomalies + found, totalChecks + 1)

\* anomalies / totalChecks, without the + 1 for the weight of the last check
detectTamperingUnweighted(outcome) ==
    LET counts == tamperCounts(outcome, 1, 0, 0)
        anomalyScore == [num |-> counts.anomalies, den |-> counts.totalChecks]
    IN  [result |-> anomalyScore.num * 10 > 3 * anomalyScore.den,
         anomalyScore |-> anomalyScore,
         antiDetectBrowser |-> outcome["detectAntiDetectBrowser"]]

detectTampering(outcome) ==
    LET counts == tamperCounts(outcome, 1, 0, 0)
        anomalyScore == [num |-> counts.anomalies, den |-> counts.totalChecks + 1]
    IN  [result |-> anomalyScore.num * 10 > 3 * anomalyScore.den,
         anomalyScore |-> anomalyScore,
         antiDetectBrowser |-> outcome["detectAntiDetectBrowser"]]

\* the browser: what each of the seven checks finds
InitTamper ==
    /\ events = <<>>
    /\ now = Epoch
    /\ ticks = 0
    /\ lastCleanup = <<>>
    /\ appended = 0
    /\ ret \in {[op |-> "input", browser |-> b, tampering |-> <<>>] :
                    b \in [Range(TamperChecks) -> BOOLEAN]}
    /\ tracker = NoTracker
    /\ build = NoBuild
    /\ geo = NoGeo

DetectTampering ==
    /\ ret.op = "input"
    /\ ret' = [ret EXCEPT !.op = "detectTampering", !.tampering = detectTampering(ret.browser)]
    /\ UNCHANGED <<events, now, ticks, lastCleanup, appended, tracker, build, geo>>

NextTamper == DetectTampering

SpecTamper == InitTamper /\ [][NextTamper]_vars

----------------------------------------------------------------------------
(* Properties *)

Aggregates ==
    {"distinctIp", "distinctLinkedId", "distinctCountry", "events", "ipEvents",
     "distinctIpByLinkedId", "distinctVisitorIdByLinkedId"}

\* every event of the log has its visitorId and its timestamp
WellFormed(log) == \A i \in 1..Len(log) : ~Malformed(log[i])

\* C1: in the result of one getVelocity call, each of the seven aggregates has
\* '24h' >= '1h' >= '5m'.
C1_WindowMonotonicity ==
    ret.op = "getVelocity" =>
        \A k \in Aggregates :
            /\ ret.velocity[k]["24h"] >= ret.velocity[k]["1h"]
            /\ ret.velocity[k]["1h"] >= ret.velocity[k]["5m"]

\* a result whose three windows hold three different, non-zero event counts
C1_Witness ==
    /\ ret.op = "getVelocity"
    /\ ret.velocity.events["24h"] > ret.velocity.events["1h"]
    /\ ret.velocity.events["1h"] > ret.velocity.events["5m"]
    /\ ret.velocity.events["5m"] > 0

\* C2: for every visitor, getVelocity returns the same values just before and
\* just after cleanup(), the clock standing still (stated for the logs whose
\* events are all well-formed).
C2_CleanupKeepsResults ==
    [][ret'.op = "cleanup" /\ WellFormed(events) =>
          \A v \in Visitors : getVelocity(events', now', v) = getVelocity(events, now, v)]_vars

\* C3: once cleanup() has run at time t, an event stamped t - 24h or earlier is
\* in the log only if a caller added it after that cleanup, and a getVelocity
\* result is the result over the log without the events cleanup dropped.
C3_NoReappearance ==
    lastCleanup # <<>> =>
        /\ \A i \in 1..(Len(events) - appended) : After(events[i], lastCleanup[1] - Day)
        /\ ret.op = "getVelocity" =>
              ret.velocity =
                  getVelocity(SelectSeq(events, LAMBDA e : After(e, lastCleanup[1] - Day))
                                  \o SelectSeq(SubSeq(events, Len(events) - appended + 1, Len(events)),
                                               LAMBDA e : ~After(e, lastCleanup[1] - Day)),
                              now, ret.visitorId)

\* after a cleanup the log holds an event that survived it and a backdated
\* event a caller added since
C3_Witness ==
    /\ lastCleanup # <<>>
    /\ appended > 0
    /\ appended < Len(events)
    /\ \E i \in (Len(events) - appended + 1)..Len(events) :
           events[i].timestamp # <<>> /\ ~After(events[i], lastCleanup[1] - Day)

\* C4: analyzeVelocity returns a riskScore in [0,1] (0..10 tenths).
C4_RiskBound ==
    ret.op = "analyzeVelocity" => ret.riskScore \in 0..10

\* all five rules fire and the score is clamped to 1
C4_Witness ==
    /\ ret.op = "analyzeVelocity"
    /\ Len(ret.signals) = 5
    /\ ret.riskScore = 10

\* The rules as specified: name, weight in tenths, predicate.
RuleNames ==
    <<"rapid_ip_changes", "high_activity", "distributed_activity", "account_sharing", "ip_sharing">>

RuleWeight ==
    [n \in Range(RuleNames) |->
        IF n = "rapid_ip_changes" THEN 3
        ELSE IF n = "high_activity" THEN 2
        ELSE IF n = "distributed_activity" THEN 4
        ELSE IF n = "account_sharing" THEN 3
        ELSE 2]

RuleHolds(n, vd) ==
    IF n = "rapid_ip_changes" THEN vd.distinctIp["5m"] >= 4
    ELSE IF n = "high_activity" THEN vd.events["5m"] >= 51
    ELSE IF n = "distributed_activity" THEN vd.distinctIp["1h"] >= 11
    ELSE IF n = "account_sharing" THEN vd.distinctVisitorIdByLinkedId["1h"] >= 6
    ELSE IF vd.distinctIp["1h"] = 0 THEN vd.ipEvents["1h"] >= 21
    ELSE vd.ipEvents["1h"] >= 20 * vd.distinctIp["1h"] + 1

RECURSIVE SumWeights(_)
SumWeights(sigs) ==
    IF sigs = <<>> THEN 0 ELSE RuleWeight[Head(sigs)] + SumWeights(Tail(sigs))

\* C5: signals holds exactly the names of the rules whose predicate holds, each
\* once and in the fixed order, and riskScore = min(1, sum of their weights).
C5_RuleEvaluation ==
    ret.op = "analyzeVelocity" =>
        /\ ret.signals = SelectSeq(RuleNames, LAMBDA n : RuleHolds(n, ret.velocity))
        /\ ret.riskScore = Min(10, SumWeights(ret.signals))

\* ip_sharing fires alone, for a visitor with no distinct IP in the last hour
C5_Witness ==
    /\ ret.op = "analyzeVelocity"
    /\ ret.velocity.distinctIp["1h"] = 0
    /\ ret.signals = <<"ip_sharing">>
    /\ ret.riskScore = 2

InLast5m(log, v, t) == SelectSeq(VisitorEvents(log, v), LAMBDA e : After(e, t - FiveMin))

\* C6: when the n events of a visitor stamped within the last 5 minutes have
\* pairwise distinct IPs, analyzeVelocity reports distinctIp['5m'] = n, and
\* 'rapid_ip_changes' whenever n > 3.
C6_DistinctIps ==
    ret.op = "analyzeVelocity" =>
        LET mine == InLast5m(events, ret.visitorId, now)
            n    == Len(mine)
        IN  Cardinality({e.ip : e \in Range(mine)}) = n =>
                /\ ret.velocity.distinctIp["5m"] = n
                /\ n > 3 => "rapid_ip_changes" \in Range(ret.signals)

\* four events of v1 from four IPs, with an event of v2 between them
C6_Witness ==
    /\ ret.op = "analyzeVelocity"
    /\ ret.visitorId = "v1"
    /\ Len(InLast5m(events, "v1", now)) = 4
    /\ ret.velocity.distinctIp["5m"] = 4
    /\ "rapid_ip_changes" \in Range(ret.signals)
    /\ \E i \in 2..(Len(events) - 1) : events[i].visitorId = "v2"

\* C7: an event that lacks visitorId or timestamp is never in the log, and the
\* addEvent that was given it reports an error.
C7_MalformedRejected ==
    /\ \A i \in 1..Len(events) : ~Malformed(events[i])
    /\ ret.op = "addEvent" /\ Malformed(ret.event) => ret.error

\* C8: when addEvent returns, the log holds at most maxEvents events (stated
\* for the logs whose events are all well-formed).
C8_BoundedLog ==
    ret.op = "addEvent" /\ WellFormed(events) => Len(events) <= maxEvents

\* C9: for every visitor and window w, each aggregate for w is what it would
\* be if the log held only the events stamped after now - w (stated for the
\* logs whose events are all well-formed).
C9_WindowLocality ==
    WellFormed(events) =>
    \A v \in Visitors : \A w \in Windows : \A k \in Aggregates :
        getVelocity(events, now, v)[k][w]
            = getVelocity(SelectSeq(events, LAMBDA e : After(e, now - Duration[w])), now, v)[k][w]

\* C10: for a visitor none of whose events carries a linkedId, getVelocity
\* returns 0 in every window for the three linkedId-keyed aggregates, without error.
C10_NoLinkedId ==
    ret.op = "getVelocity"
    /\ (\A e \in Range(VisitorEvents(events, ret.visitorId)) : e.linkedId = "") =>
        /\ ~ret.error
        /\ \A w \in Windows :
              /\ ret.velocity.distinctLinkedId[w] = 0
              /\ ret.velocity.distinctIpByLinkedId[w] = 0
              /\ ret.velocity.distinctVisitorIdByLinkedId[w] = 0

\* the visitor has an event in the last 5 minutes and no linkedId, while another
\* visitor's event in the last 5 minutes carries one
C10_Witness ==
    /\ ret.op = "getVelocity"
    /\ ret.velocity.events["5m"] > 0
    /\ \A e \in Range(VisitorEvents(events, ret.visitorId)) : e.linkedId = ""
    /\ \E e \in Range(events) :
           e.visitorId \in Visitors \ {ret.visitorId} /\ e.linkedId # "" /\ After(e, now - FiveMin)

\* C11: getVelocity and analyzeVelocity for a visitor with no event in the log
\* return without error, with 0 for every aggregate in every window, and
\* analyzeVelocity with no signal and riskScore 0.
C11_UnknownVisitor ==
    ret.op \in {"getVelocity", "analyzeVelocity"}
    /\ VisitorEvents(events, ret.visitorId) = <<>> =>
        /\ ~ret.error
        /\ \A k \in Aggregates : \A w \in Windows : ret.velocity[k][w] = 0
        /\ ret.signals = <<>>
        /\ ret.riskScore = 0

\* analyzeVelocity for a visitor whose events a cleanup has all dropped, while
\* the log holds a fresh event of another visitor from the same IP
C11_Witness ==
    /\ ret.op = "analyzeVelocity"
    /\ ret.visitorId = "v1"
    /\ lastCleanup # <<>>
    /\ VisitorEvents(events, "v1") = <<>>
    /\ \E e \in Range(events) : e.visitorId = "v2" /\ After(e, now - FiveMin)

FreshCount(log, t) == Len(SelectSeq(log, LAMBDA e : After(e, t - Day)))

\* C12: under every interleaving of track, getVelocity, analyzeVelocity and the
\* cleanup timer, a getVelocity result is the result over the log as it was
\* when the call read it, and the events stamped within the last 24h whose
\* track has returned are all in the log.
C12_Atomicity ==
    /\ \A t \in Callers :
           LET c == tracker.calls[t]
           IN  c.op \in {"getVelocity", "analyzeVelocity"} /\ c.pc = "resolved" =>
                   velocityOf(c.visitorEvents, now, c.parts) = getVelocity(c.snap, now, c.visitorId)
    /\ FreshCount(events, now) >= tracker.acked

\* a getVelocity result waiting for its caller while a cleanup has dropped
\* an event the call had read, two tracked events being in the log
C12_Witness ==
    /\ tracker.acked >= 2
    /\ \E t \in Callers :
           /\ tracker.calls[t].op = "analyzeVelocity"
           /\ tracker.calls[t].pc = "resolved"
           /\ FreshCount(tracker.calls[t].snap, now) < Len(tracker.calls[t].snap)
           /\ FreshCount(events, now) = Len(events)
           /\ tracker.calls[t].parts[1]["24h"] > 0

\* C13: from construction until stop(), cleanup has run once for every full
\* hour elapsed (the run of the present hour being due at most), track and
\* getVelocity can always be called, an expired timer's cleanup eventually
\* runs unless the tracker is stopped, and once stop() has returned no
\* cleanup runs any more.
C13_CleanupLifecycle ==
    /\ [](~tracker.stopped =>
             /\ tracker.fired + (IF now >= tracker.due THEN 1 ELSE 0) = (now - Epoch) \div OneHour
             /\ \A v \in Visitors : ENABLED GetVelocity(v))
    /\ ((~tracker.stopped /\ now >= tracker.due) ~> (tracker.stopped \/ now < tracker.due))
    /\ [][tracker.stopped => tracker'.fired = tracker.fired /\ ret'.op # "cleanup"]_vars

\* cleanup has run twice, stop() has returned and the hour of the next run
\* has come
C13_Witness ==
    /\ tracker.stopped
    /\ tracker.fired = 2
    /\ now >= tracker.due

\* the device signals of a fingerprint: everything but the collection times
DeviceSignals(fingerprint) ==
    <<fingerprint.basic.client, fingerprint.canvas, fingerprint.webgl,
      fingerprint.audio, fingerprint.fonts>>

\* C14: two builds with the same device signals, collected at different
\* times, have the same combined hash and the same visitorId.
C14_IdentifierDeterminism ==
    build.last # <<>> /\ build.prev # <<>>
    /\ DeviceSignals(build.last[1].fingerprint) = DeviceSignals(build.prev[1].fingerprint)
    /\ build.last[1].fingerprint.timestamp # build.prev[1].fingerprint.timestamp =>
        /\ build.last[1].combinedHash = build.prev[1].combinedHash
        /\ build.last[1].visitorId = build.prev[1].visitorId

\* C15: a complete build with default options in which exactly one collector
\* throws (and the deadline does not expire) returns a fingerprint in which
\* that signal alone is marked missing, with confidence 80.
C15_PartialFailureTolerated ==
    \A bad \in Signals :
        build.phase \in {"returned", "thrown"} /\ ~build.timedOut
        /\ build.mode = "complete" /\ build.include = Signals
        /\ build.env = [sig \in Signals |-> IF sig = bad THEN "fails" ELSE "ok"] =>
            /\ build.phase = "returned"
            /\ build.result[bad] = "error"
            /\ \A sig \in Signals \ {bad} : build.result[sig] = SignalHash("d1", sig)
            /\ calculateConfidenceScore(build.result) = 80

\* C16: when the deadline expires before every collector has finished, the
\* build returns a fingerprint with a lowered confidence instead of an error.
C16_DeadlineDegrades ==
    build.timedOut =>
        /\ build.phase = "returned"
        /\ calculateConfidenceScore(build.result) < 100

\* the signal groups a returned fingerprint actually holds: basic, and the
\* enabled signals whose collector answered
Collected(b) == {"basic"} \cup {sig \in b.include : b.env[sig] = "ok"}

\* C17: the confidence of a returned fingerprint is a fifth of 100 for every
\* signal group that was collected; the disabled and the failed ones add
\* nothing (stated for the lightweight builds and for the complete builds
\* with default options, where no disabled collector is run).
C17_ConfidenceScore ==
    build.phase = "returned" /\ (build.mode = "complete" => build.include = Signals) =>
        calculateConfidenceScore(build.result) = 20 * Cardinality(Collected(build))

\* C18: for an anomaly score in [0,1] and any VPN and proxy result,
\* calculateSuspectScore returns a value in [0,1] (0..200 two-hundredths):
\* the sum of the contributions, or 1 when the sum exceeds 1.
C18_SuspectScoreBound ==
    ret.op = "calculateSuspectScore" =>
        /\ ret.result \in 0..200
        /\ ret.result = Min(200, suspectSum(ret.tampering, ret.vpn, ret.proxy))

\* every contribution at its largest, 0.5 + 0.3 + 0.3 + 0.2, clamped to 1
C18_Witness ==
    /\ ret.op = "calculateSuspectScore"
    /\ suspectSum(ret.tampering, ret.vpn, ret.proxy) = 260
    /\ ret.result = 200

\* C19: a lookup that found no cached entry has called the providers in list
\* order, each after the one before returned null or threw, and stopped at
\* the first result, which it returns; when every provider failed it
\* returns null; it never throws.
C19_FallbackChain ==
    LET l == geo.lookup
        n == Len(l.called)
    IN  l.phase = "done" /\ ~l.cached =>
            /\ ~l.threw
            /\ l.called = SubSeq(Providers, 1, n)
            /\ \A i \in 1..(n - 1) : l.env[i] \in {"null", "throws"}
            /\ IF l.env[n] = "answer"
               THEN l.result = Answer(Providers[n], l.ip)
               ELSE n = Len(Providers) /\ l.result = Null

\* the first provider threw, the second returned null and the third answered
C19_Witness ==
    /\ geo.lookup.phase = "done"
    /\ ~geo.lookup.cached
    /\ geo.lookup.env[1] = "throws"
    /\ geo.lookup.env[2] = "null"
    /\ geo.lookup.called = Providers
    /\ geo.lookup.result = Answer(Providers[3], geo.lookup.ip)

\* C20: a lookup waiting for a provider can always go on: the provider
\* settles or a timeout ends the attempt.
C20_BoundedLookup ==
    geo.lookup.phase = "awaiting" => ENABLED ProviderSettles

\* the normalized value of a field: missing stays missing (and is not the
\* empty string), a string is trimmed and its whitespace collapsed
NormalizedValue(v) == IF v = <<>> THEN <<>> ELSE <<collapse(trim(v[1]))>>

\* C21: two bags that differ in the normalized value of at least one key of
\* the key list have different canonical strings.
C21_CanonicalUnambiguous ==
    ret.op = "canonicalize"
    /\ (\E k \in Range(CanonKeys) : NormalizedValue(ret.a[k]) # NormalizedValue(ret.b[k])) =>
        ret.canonA # ret.canonB

\* the keys present (not undefined, not null) on a side
PresentKeys(features) == {k \in Range(FeatureKeys) : features[k] # <<>>}

\* the sum of the weights of a set of keys
RECURSIVE WeightOf(_, _)
WeightOf(weights, keys) ==
    IF keys = {} THEN 0
    ELSE LET k == CHOOSE x \in keys : TRUE IN weights[k] + WeightOf(weights, keys \ {k})

MatchedKeys ==
    {k \in PresentKeys(ret.incoming) \cap PresentKeys(ret.stored) : ret.incoming[k] = ret.stored[k]}

EitherKeys == PresentKeys(ret.incoming) \cup PresentKeys(ret.stored)

\* C22: the score is (weights of the keys present on both sides with equal
\* hashes) / (weights of the keys present on at least one side), 0 when that
\* denominator is 0, and lies in [0,1].
C22_WeightedScore ==
    ret.op \in {"weightedScore", "classify"} =>
        LET n == WeightOf(ret.weights, MatchedKeys)
            d == WeightOf(ret.weights, EitherKeys)
        IN /\ d = 0 => ret.score.num = 0
           /\ d > 0 => ret.score.num * d = n * ret.score.den
           /\ ret.score.den > 0
           /\ 0 <= ret.score.num /\ ret.score.num <= ret.score.den

\* a score strictly between 0 and 1 with a weighted key absent from both sides
C22_Witness ==
    /\ ret.op = "weightedScore"
    /\ 0 < ret.score.num /\ ret.score.num < ret.score.den
    /\ \E k \in Range(FeatureKeys) \ EitherKeys : ret.weights[k] > 0

\* C23: when no key is present on both sides the score is 0 and the
\* classification is new_device, whatever the weights and the thresholds.
C23_ZeroOverlapGuard ==
    ret.op = "classify" /\ PresentKeys(ret.incoming) \cap PresentKeys(ret.stored) = {} =>
        ret.score.num = 0 /\ ret.classification = "new_device"

Stale(e, t) == e.timestamp # <<>> /\ e.timestamp[1] <= t - Day

\* new is old without some of its stale events, the others in their order
RECURSIVE DropsOnlyStale(_, _, _)
DropsOnlyStale(old, new, t) ==
    IF old = <<>> THEN new = <<>>
    ELSE IF new # <<>> /\ Head(old) = Head(new) THEN DropsOnlyStale(Tail(old), Tail(new), t)
    ELSE Stale(Head(old), t) /\ DropsOnlyStale(Tail(old), new, t)

\* C25: getVelocity and analyzeVelocity leave the log unchanged; addEvent
\* keeps the recorded events in their order and puts the new one at the end;
\* cleanup and the size-limit pass of addEvent drop only events stamped
\* now - 24h or earlier.
C25_AppendOnly ==
    [][/\ ret'.op \in {"getVelocity", "analyzeVelocity"} => events' = events
       /\ ret'.op = "addEvent" => DropsOnlyStale(Append(events, ret'.event), events', now)
       /\ ret'.op = "cleanup" => DropsOnlyStale(events, events', now)]_vars

\* the pieces of a string between the occurrences of a separator
RECURSIVE Split(_, _, _)
Split(str, sep, piece) ==
    IF str = <<>> THEN <<piece>>
    ELSE IF Head(str) = sep THEN <<piece>> \o Split(Tail(str), sep, <<>>)
    ELSE Split(Tail(str), sep, Append(piece, Head(str)))

\* a ClientHello with the GREASE values taken out of its three lists
WithoutGrease(h) ==
    [h EXCEPT !.cipherSuites = SelectSeq(@, LAMBDA c : c \notin greasePattern),
              !.extensions = SelectSeq(@, LAMBDA x : x \notin greasePattern),
              !.ellipticCurves = IF @ = <<>> THEN @
                                 ELSE <<SelectSeq(@[1], LAMBDA c : c \notin greasePattern)>>]

\* C26: the cipher, extension and curve components of ja3String hold no
\* GREASE value, and a ClientHello that differs from the given one only in
\* GREASE values has the same ja3String and ja3Hash.
C26_Ja3GreaseFiltered ==
    ret.op = "generateJA3" =>
        /\ LET parts == Split(ret.fingerprint.ja3String, 44, <<>>)
           IN \A i \in 2..4 : \A g \in greasePattern :
                  Digits(g) \notin Range(Split(parts[i], 45, <<>>))
        /\ \A h \in ClientHellos :
              WithoutGrease(h) = WithoutGrease(ret.clientHello) =>
                  /\ generateJA3(h).ja3String = ret.fingerprint.ja3String
                  /\ generateJA3(h).ja3Hash = ret.fingerprint.ja3Hash

\* the anomalies a browser shows: one per check, two for the anti-detect check
Anomalies(browser) ==
    Cardinality({c \in Range(TamperChecks) : browser[c]})
        + (IF browser["detectAntiDetectBrowser"] THEN 1 ELSE 0)

\* C27: anomalyScore = anomalies / 8, it lies in [0,1], and result is true
\* exactly when anomalyScore > 0.3.
C27_AnomalyScore ==
    ret.op = "detectTampering" =>
        LET score == ret.tampering.anomalyScore
        IN /\ score.den = 8 /\ score.num = Anomalies(ret.browser)
           /\ 0 <= score.num /\ score.num <= score.den
           /\ ret.tampering.result <=> score.num * 10 > 3 * score.den

\* every check finds an anomaly: the score is 8 / 8
C27_Witness ==
    /\ ret.op = "detectTampering"
    /\ \A c \in Range(TamperChecks) : ret.browser[c]
    /\ ret.tampering.anomalyScore.num = ret.tampering.anomalyScore.den
    /\ ret.tampering.result

\* C28: for every visitor and window w, distinctIp[w] <= events[w] <=
\* ipEvents[w], distinctLinkedId[w] <= events[w] and distinctCountry[w] <= events[w].
C28_CrossAggregateOrdering ==
    \A v \in Visitors : \A w \in Windows :
        LET velocity == getVelocity(events, now, v)
        IN /\ velocity.distinctIp[w] <= velocity.events[w]
           /\ velocity.events[w] <= velocity.ipEvents[w]
           /\ velocity.distinctLinkedId[w] <= velocity.events[w]
           /\ velocity.distinctCountry[w] <= velocity.events[w]

\* a result with 0 < distinctIp < events < ipEvents in one window
C28_Witness ==
    /\ ret.op = "getVelocity"
    /\ \E w \in Windows :
          /\ 0 < ret.velocity.distinctIp[w]
          /\ ret.velocity.distinctIp[w] < ret.velocity.events[w]
          /\ ret.velocity.events[w] < ret.velocity.ipEvents[w]

\* C29: an entry stays in the cache for cacheTTL after it was stored and is
\* gone once its timer has run; a lookup that finds it calls no provider;
\* only results are cached.
C29_CacheLifetime ==
    /\ \A ip \in Ips :
          /\ geo.stored[ip] # <<>> /\ now < geo.stored[ip][1] + cacheTTL => geo.cache[ip] # Null
          /\ geo.stored[ip] # <<>> /\ now >= geo.stored[ip][1] + cacheTTL /\ NoTimerDue =>
                geo.cache[ip] = Null
          /\ geo.cache[ip] # Null => geo.stored[ip] # <<>> /\ geo.cache[ip][1].address = ip
    /\ \A c \in Callers :
          geo.calls[c].phase = "done" /\ geo.calls[c].cached =>
              geo.calls[c].idx = 0 /\ geo.calls[c].result # Null

\* the hash a returned fingerprint reports for a signal
ReportedHash(b, sig) ==
    IF b.mode = "complete" THEN b.result[sig]
    ELSE IF sig = "canvas" THEN b.result.canvasHash
    ELSE IF sig = "webgl" THEN b.result.webglHash
    ELSE IF sig = "audio" THEN b.result.audioHash
    ELSE b.result.fontHash

\* C30: a build runs the collector of a signal exactly when its include
\* option is true, and a returned fingerprint reports a disabled signal as
\* not collected: '<name>-disabled' in a lightweight fingerprint, and not the
\* collector's hash in a complete one.
C30_OptionsHonoured ==
    /\ build.phase # "idle" => build.ran = build.include
    /\ build.phase = "returned" =>
          \A sig \in Signals \ build.include :
              IF build.mode = "lightweight"
              THEN ReportedHash(build, sig) = DisabledHash(sig)
              ELSE ReportedHash(build, sig) # SignalHash("d1", sig)

====
